---- MODULE Spec2Model ----
(***************************************************************************)
(* Model of the derive expansion in impl/src/expand.rs (a thiserror-style  *)
(* derive extended with "throw" traits) together with an interpreter for   *)
(* the items it generates.                                                 *)
(*                                                                         *)
(* An Input is the parsed type definition.  derive validates it and emits  *)
(* a bundle of generated items; the generated items are data (`out`), and  *)
(* the run-time actions below execute them on concrete values.             *)
(***************************************************************************)
EXTENDS Integers, Sequences, FiniteSets, TLC

VARIABLES
    input,  \* the parsed type definition handed to derive
    pc,     \* "input" | "failed" | "emitted" | position inside a generated method
    out,    \* the generated items (meaningful once pc # "input")
    call,   \* the generated method being executed and its arguments
    self,   \* the value of the derived type a method is invoked on / has built
    ret,    \* the value returned by the generated method
    log     \* the observable events of the running method, in order

vars == <<input, pc, out, call, self, ret, log>>

(***************************************************************************)
(* Bounds of the model.                                                    *)
(***************************************************************************)
MaxFields == 2      \* number of fields of the struct / of the variant under study
MaxWords == 3       \* number of words an identifier is concatenated from

(***************************************************************************)
(* Helpers on sequences.                                                   *)
(***************************************************************************)
\* the increasing sequence of the indices i of 1..n with keep[i]
RECURSIVE FilterIdx(_, _)
FilterIdx(n, keep) ==
    IF n = 0 THEN <<>>
    ELSE IF keep[n] THEN Append(FilterIdx(n - 1, keep), n)
         ELSE FilterIdx(n - 1, keep)

\* first index of 1..Len(s) whose element satisfies `hit`, 0 when there is none
RECURSIVE FirstFrom(_, _, _)
FirstFrom(i, n, hit) ==
    IF i > n THEN 0 ELSE IF hit[i] THEN i ELSE FirstFrom(i + 1, n, hit)

First(n, hit) == FirstFrom(1, n, hit)

RECURSIVE Flatten(_)
Flatten(ss) == IF ss = <<>> THEN <<>> ELSE Head(ss) \o Flatten(Tail(ss))

(***************************************************************************)
(* Types of the host language, as far as the expansion looks at them: the  *)
(* last path segment and its angle-bracketed arguments.                    *)
(***************************************************************************)
IoError == [path |-> "Error", args |-> <<>>]
Backtrace == [path |-> "Backtrace", args |-> <<>>]
String == [path |-> "String", args |-> <<>>]
Errno == [path |-> "Errno", args |-> <<>>]      \* an error type that is Copy
OptionOf(t) == [path |-> "Option", args |-> <<t>>]

Types == {IoError, OptionOf(IoError), Backtrace, OptionOf(Backtrace), String}

\* expand.rs type_parameter_of_option: <<arg>> for Option<arg>, <<>> otherwise
type_parameter_of_option(ty) ==
    IF ty.path # "Option" THEN <<>>
    ELSE IF Len(ty.args) # 1 THEN <<>>
    ELSE <<ty.args[1]>>

type_is_option(ty) == type_parameter_of_option(ty) # <<>>

unoptional_type(ty) ==
    IF type_parameter_of_option(ty) # <<>> THEN type_parameter_of_option(ty)[1] ELSE ty

\* Field::is_backtrace: the type's last segment is `Backtrace`, without arguments
type_is_backtrace(ty) == ty.path = "Backtrace" /\ ty.args = <<>>

(***************************************************************************)
(* Identifiers are sequences of characters.                                *)
(***************************************************************************)
Upper == {"A", "B", "E", "I", "M", "T", "X"}

to_ascii_lowercase(ch) ==
    CASE ch = "A" -> "a" [] ch = "B" -> "b" [] ch = "E" -> "e" [] ch = "I" -> "i"
      [] ch = "M" -> "m" [] ch = "T" -> "t" [] ch = "X" -> "x" [] OTHER -> ch

is_uppercase(ch) == ch \in Upper

sERROR == <<"_", "e", "r", "r", "o", "r">>
sTHROW == <<"t", "h", "r", "o", "w", "_">>
sWITH == <<"_", "w", "i", "t", "h">>
sTHROWS == <<"T", "h", "r", "o", "w", "s">>
sSOURCE == <<"s", "o", "u", "r", "c", "e">>

\* the words identifiers of the naming specification are concatenated from
Words == { <<"I", "o">>, <<"E", "r", "r", "o", "r">>, <<"e", "r", "r", "o", "r">>,
           <<"_">>, <<"X">> }

Idents == UNION { { Flatten(ws) : ws \in [1..k -> Words] } : k \in 1..MaxWords }

MyError == <<"M", "y", "E", "r", "r", "o", "r">>
VariantA == <<"A">>
VariantB == <<"B", "a", "d">>

(***************************************************************************)
(* Fields (ast.rs Field): `named` is original.ident.is_some(), `member` is *)
(* the field's name (named) or its 0-based index (positional).             *)
(***************************************************************************)
NoAttrs == [from |-> FALSE, source |-> FALSE, backtrace |-> FALSE]

\* the attribute/type combinations of one field: a causal tag sits on an error
\* type, a bare backtrace tag on a trace type
FieldKinds ==
    { [attrs |-> NoAttrs, ty |-> t] : t \in Types }
    \cup { [attrs |-> a, ty |-> t] :
             a \in { x \in [from : BOOLEAN, source : BOOLEAN, backtrace : BOOLEAN] :
                       x.from \/ x.source },
             t \in {IoError, OptionOf(IoError)} }
    \cup { [attrs |-> [NoAttrs EXCEPT !.backtrace = TRUE], ty |-> t] :
             t \in {Backtrace, OptionOf(Backtrace)} }

OtherName == << <<"m", "s", "g">>, <<"v", "a", "l">>, <<"k", "e", "y">>, <<"a", "u", "x">> >>

\* positional fields: members 0, 1, ...
TupleFields(n) ==
    { [i \in 1..n |-> [named |-> FALSE, member |-> i - 1,
                       ty |-> k[i].ty, attrs |-> k[i].attrs]] :
        k \in [1..n -> FieldKinds] }

\* named fields: at most one of them (position p) is called `source`
NamedFields(n) ==
    { [i \in 1..n |-> [named |-> TRUE,
                       member |-> IF i = kp[2] THEN sSOURCE ELSE OtherName[i],
                       ty |-> kp[1][i].ty, attrs |-> kp[1][i].attrs]] :
        kp \in [1..n -> FieldKinds] \X (0..n) }

FieldLists(n) == IF n = 0 THEN {<<>>} ELSE TupleFields(n) \cup NamedFields(n)

\* attrs.implied_bounds stands for attrs.display.implied_bounds: the pairs
\* <<0-based field index, trait>> of the fields the template interpolates
ContainerAttrs == [transparent : BOOLEAN, display : BOOLEAN, implied_bounds : {{}}]
NoContainerAttrs == [transparent |-> FALSE, display |-> FALSE, implied_bounds |-> {}]

(***************************************************************************)
(* prop.rs: which field plays which role.  0 stands for None.              *)
(***************************************************************************)
is_named_source(f) == f.named /\ f.member = sSOURCE

from_field(fields) ==
    First(Len(fields), [i \in 1..Len(fields) |-> fields[i].attrs.from])

source_field(fields) ==
    LET n == Len(fields)
        tagged == First(n, [i \in 1..n |-> fields[i].attrs.from \/ fields[i].attrs.source])
    IN IF tagged # 0 THEN tagged
       ELSE First(n, [i \in 1..n |-> is_named_source(fields[i])])

backtrace_field(fields) ==
    LET n == Len(fields)
        tagged == First(n, [i \in 1..n |-> fields[i].attrs.backtrace])
    IN IF tagged # 0 THEN tagged
       ELSE First(n, [i \in 1..n |-> type_is_backtrace(fields[i].ty)])

\* the backtrace field, unless it is the #[from] field itself
distinct_backtrace_field(fields) ==
    LET b == backtrace_field(fields)
    IN IF b # 0 /\ from_field(fields) = b THEN 0 ELSE b

has_source(en) ==
    \E i \in 1..Len(en.variants) :
        source_field(en.variants[i].fields) # 0 \/ en.variants[i].attrs.transparent

has_backtrace(en) ==
    \E i \in 1..Len(en.variants) : backtrace_field(en.variants[i].fields) # 0

has_display(en) ==
    \/ en.attrs.display
    \/ en.attrs.transparent
    \/ \E i \in 1..Len(en.variants) : en.variants[i].attrs.display
    \/ \A i \in 1..Len(en.variants) : en.variants[i].attrs.transparent

(***************************************************************************)
(* valid.rs: the structural rules an Input must satisfy.                   *)
(***************************************************************************)
check_non_field_attrs(attrs) == ~(attrs.transparent /\ attrs.display)

check_field_attrs(fields) ==
    LET n == Len(fields)
    IN /\ Cardinality({i \in 1..n : fields[i].attrs.from}) <= 1
       /\ Cardinality({i \in 1..n : fields[i].attrs.source}) <= 1
       /\ Cardinality({i \in 1..n : fields[i].attrs.backtrace}) <= 1
       /\ \A i, j \in 1..n : fields[i].attrs.from /\ fields[j].attrs.source => i = j

\* Struct::validate and Variant::validate
validate_shape(attrs, fields) ==
    /\ check_non_field_attrs(attrs)
    /\ attrs.transparent =>
         /\ Len(fields) = 1
         /\ \A i \in 1..Len(fields) : ~fields[i].attrs.source
    /\ check_field_attrs(fields)

validate(inp) ==
    IF inp.kind = "struct" THEN validate_shape(inp.attrs, inp.fields)
    ELSE /\ check_non_field_attrs(inp.attrs)
         /\ \A i \in 1..Len(inp.variants) :
              LET v == inp.variants[i]
              IN /\ validate_shape(v.attrs, v.fields)
                 /\ (has_display(inp) /\ ~v.attrs.display /\ ~v.attrs.transparent)
                      => Len(v.fields) = 1
         /\ \A i, j \in 1..Len(inp.variants) :
              LET fi == from_field(inp.variants[i].fields)
                  fj == from_field(inp.variants[j].fields)
              IN (i # j /\ fi # 0 /\ fj # 0)
                   => inp.variants[i].fields[fi].ty # inp.variants[j].fields[fj].ty

(***************************************************************************)
(* expand.rs: names of the throw methods.                                  *)
(***************************************************************************)
\* lines 174-180: '_' before every upper-case character but the first, each
\* character lower-cased
RECURSIVE snake_from(_, _)
snake_from(ident, i) ==
    IF i > Len(ident) THEN <<>>
    ELSE (IF i > 1 /\ is_uppercase(ident[i]) THEN <<"_">> ELSE <<>>)
         \o <<to_ascii_lowercase(ident[i])>> \o snake_from(ident, i + 1)

snake(ident) == snake_from(ident, 1)

ends_with(s, pat) ==
    Len(s) >= Len(pat) /\ SubSeq(s, Len(s) - Len(pat) + 1, Len(s)) = pat

\* str::trim_end_matches: the pattern is removed from the end as often as it matches
RECURSIVE trim_end_matches(_, _)
trim_end_matches(s, pat) ==
    IF ends_with(s, pat) THEN trim_end_matches(SubSeq(s, 1, Len(s) - Len(pat)), pat)
    ELSE s

method_name(ident) == trim_end_matches(snake(ident), sERROR)

throw_method(ident) == sTHROW \o method_name(ident)

with_method(ident) == sTHROW \o method_name(ident) \o sWITH

(***************************************************************************)
(* expand.rs: the throw trait of a struct / of a variant.                  *)
(***************************************************************************)
\* the closure is_source: is field i left out of the parameters
is_source_by_name_alone(fields, i) ==
    \/ fields[i].attrs.from \/ fields[i].attrs.source
    \/ is_named_source(fields[i])

is_source(fields, i) ==
    LET source == fields[source_field(fields)]
    IN \/ fields[i].attrs.from \/ fields[i].attrs.source
       \/ (is_named_source(fields[i]) /\ source.member = fields[i].member)

Digit == <<"0", "1", "2", "3", "4", "5">>

\* format_ident!("_{}", i)
underscore(i) == <<"_", Digit[i + 1]>>

eVar == <<"e">>     \* the closure parameter of map_err

\* params / fields / types: one entry per field that is not the source, in order;
\* a positional field is named by its position among the parameters
throw_params(fields) ==
    LET idx == FilterIdx(Len(fields), [i \in 1..Len(fields) |-> ~is_source(fields, i)])
    IN [k \in 1..Len(idx) |->
          [name |-> IF fields[idx[k]].named THEN fields[idx[k]].member
                    ELSE underscore(k - 1),
           ty |-> fields[idx[k]].ty]]

\* new_struct: the constructor expression of the closure
new_struct(fields) ==
    LET source == fields[source_field(fields)]
        params == throw_params(fields)
    IN IF source.named
       THEN [kind |-> "named",
             inits |-> <<[member |-> source.member, expr |-> eVar]>>
                       \o [k \in 1..Len(params) |->
                             [member |-> params[k].name, expr |-> params[k].name]]]
       ELSE [kind |-> "tuple",
             args |-> <<eVar>> \o [k \in 1..Len(params) |-> params[k].name]]

\* the bodies of the two generated methods, statement by statement; the statements
\* after map_err are those of the closure handed to it
throw_method_body == <<"map_err", "new_struct">>

with_method_body_eager == <<"let_fields_f", "map_err", "new_struct">>

with_method_body == <<"map_err", "let_fields_f", "new_struct">>

with_method_decl_never(ident, fields) == [present |-> FALSE, name |-> with_method(ident)]

\* (!params.is_empty()).then(|| quote!{ fn #with_method ...; })
with_method_decl(ident, fields) ==
    [present |-> throw_params(fields) # <<>>, name |-> with_method(ident)]

\* `(#types)`, the type the supplier returns: parentheses around one type are that
\* type, around several a tuple
supplier_ty(params) ==
    IF Len(params) = 1 THEN params[1].ty
    ELSE [path |-> "tuple", args |-> [k \in 1..Len(params) |-> params[k].ty]]

\* `(#fields)`, the pattern of `let (#fields) = f();`
let_fields(params) == [k \in 1..Len(params) |-> params[k].name]

\* (!params.is_empty()).then(|| quote!{ fn #with_method ... { self.map_err(..) } })
with_method_impl(ident, fields) ==
    [present |-> throw_params(fields) # <<>>, name |-> with_method(ident),
     returns |-> supplier_ty(throw_params(fields)),
     pat |-> let_fields(throw_params(fields)),
     body |-> with_method_body]

variant_traits_impl(trait_name, ident, fields) ==
    IF source_field(fields) = 0 THEN [kind |-> "none"]
    ELSE [kind |-> "some",
          trait_name |-> trait_name,
          throw_method |-> throw_method(ident),
          throw_impl |-> throw_method_body,
          with_method_decl |-> with_method_decl(ident, fields),
          with_method_impl |-> with_method_impl(ident, fields),
          params |-> throw_params(fields),
          source_ty |-> fields[source_field(fields)].ty,
          new_struct |-> new_struct(fields)]

(***************************************************************************)
(* expand.rs: cause lookup (fn source).                                    *)
(***************************************************************************)
\* the body for a struct; the arm for a variant has the same three shapes
source_body_without_asref(attrs, fields) ==
    IF attrs.transparent
    THEN [kind |-> "transparent", member |-> fields[1].member]
    ELSE IF source_field(fields) # 0
    THEN [kind |-> "some", member |-> fields[source_field(fields)].member,
          asref |-> FALSE]
    ELSE [kind |-> "none"]

source_body_ignoring_transparent(attrs, fields) ==
    IF source_field(fields) # 0
    THEN [kind |-> "some", member |-> fields[source_field(fields)].member,
          asref |-> type_is_option(fields[source_field(fields)].ty)]
    ELSE [kind |-> "none"]

source_body(attrs, fields) ==
    IF attrs.transparent
    THEN [kind |-> "transparent", member |-> fields[1].member]
    ELSE IF source_field(fields) # 0
    THEN [kind |-> "some", member |-> fields[source_field(fields)].member,
          asref |-> type_is_option(fields[source_field(fields)].ty)]
    ELSE [kind |-> "none"]

(***************************************************************************)
(* expand.rs: trace provision (fn provide).  A body is the sequence of its *)
(* statements.                                                             *)
(***************************************************************************)
self_provide_unconditional(f) ==
    [op |-> "self_provide", member |-> f.member, cond |-> "always"]

source_provide(f) ==
    [op |-> "source_provide", member |-> f.member,
     cond |-> IF type_is_option(f.ty) THEN "if_some" ELSE "always"]

self_provide(f) ==
    [op |-> "self_provide", member |-> f.member,
     cond |-> IF type_is_option(f.ty) THEN "if_some" ELSE "always"]

\* impl_struct, lines 64-114
struct_provide_method(fields) ==
    LET b == backtrace_field(fields)
        s == source_field(fields)
    IN IF b = 0 THEN [kind |-> "none"]
       ELSE [kind |-> "some",
             binds |-> <<>>,
             body |-> IF s # 0
                      THEN <<source_provide(fields[s])>>
                           \o (IF fields[s].member = fields[b].member THEN <<>>
                               ELSE <<self_provide(fields[b])>>)
                      ELSE <<self_provide(fields[b])>>]

\* impl_enum, lines 358-446: the arm of one variant; `binds` are the members the
\* arm's pattern binds
enum_provide_arm(fields) ==
    LET b == backtrace_field(fields)
        s == source_field(fields)
    IN IF b # 0 /\ s # 0 /\ ~fields[b].attrs.backtrace
       THEN [kind |-> "some", binds |-> <<fields[b].member, fields[s].member>>,
             body |-> <<source_provide(fields[s]), self_provide(fields[b])>>]
       ELSE IF b # 0 /\ s # 0 /\ fields[b].member = fields[s].member
       THEN [kind |-> "some", binds |-> <<fields[b].member>>,
             body |-> <<source_provide(fields[s])>>]
       ELSE IF b # 0
       THEN [kind |-> "some", binds |-> <<fields[b].member>>,
             body |-> <<self_provide(fields[b])>>]
       ELSE [kind |-> "some", binds |-> <<>>, body |-> <<>>]

(***************************************************************************)
(* expand.rs: Display.                                                     *)
(***************************************************************************)
struct_display_impl_for_sole_field(attrs, fields) ==
    IF attrs.transparent \/ (~attrs.display /\ Len(fields) = 1)
    THEN [kind |-> "transparent", member |-> fields[1].member]
    ELSE IF attrs.display THEN [kind |-> "template"]
    ELSE [kind |-> "none"]

\* impl_struct, lines 116-154
struct_display_impl(attrs, fields) ==
    IF attrs.transparent THEN [kind |-> "transparent", member |-> fields[1].member]
    ELSE IF attrs.display THEN [kind |-> "template"]
    ELSE [kind |-> "none"]

\* impl_enum, lines 474-501: the arm of one variant
enum_display_arm(attrs, fields) ==
    IF attrs.display THEN [kind |-> "template"]
    ELSE [kind |-> "transparent", member |-> fields[1].member]

(***************************************************************************)
(* expand.rs: From.                                                        *)
(***************************************************************************)
from_initializer_without_some(from, backtrace) ==
    <<[member |-> from.member, expr |-> [wrap |-> "id", of |-> "source"]]>>
    \o (IF backtrace = <<>> THEN <<>>
        ELSE <<[member |-> backtrace[1].member,
                expr |-> [wrap |-> IF type_is_option(backtrace[1].ty) THEN "Some"
                                   ELSE "From::from",
                          of |-> "capture"]]>>)

from_initializer(from, backtrace) ==
    <<[member |-> from.member,
       expr |-> [wrap |-> IF type_is_option(from.ty) THEN "Some" ELSE "id",
                 of |-> "source"]]>>
    \o (IF backtrace = <<>> THEN <<>>
        ELSE <<[member |-> backtrace[1].member,
                expr |-> [wrap |-> IF type_is_option(backtrace[1].ty) THEN "Some"
                                   ELSE "From::from",
                          of |-> "capture"]]>>)

from_impl(fields) ==
    LET f == from_field(fields)
        b == distinct_backtrace_field(fields)
    IN IF f = 0 THEN [kind |-> "none"]
       ELSE [kind |-> "some",
             from |-> unoptional_type(fields[f].ty),
             body |-> from_initializer(fields[f], IF b = 0 THEN <<>> ELSE <<fields[b]>>)]

(***************************************************************************)
(* expand.rs: the bounds the generated impls add to their where clauses.   *)
(* A generic parameter is [kind, name], kind being "type", "lifetime" or   *)
(* "const"; a bound is the pair <<type, capability>>.                      *)
(***************************************************************************)
GenericT == [path |-> "T", args |-> <<>>]
GenericU == [path |-> "U", args |-> <<>>]
SelfTy == [path |-> "Self", args |-> <<>>]

\* generics.type_params()
type_params(generics) ==
    { generics[i].name : i \in { k \in 1..Len(generics) : generics[k].kind = "type" } }

\* Field::contains_generic: the declared type mentions a generic parameter of the
\* enclosing type
contains_generic(generics, ty) ==
    LET names == { generics[i].name : i \in 1..Len(generics) }
    IN \/ ty.path \in names
       \/ \E k \in 1..Len(ty.args) : ty.args[k].path \in names

source_bounds_of_any_type(generics, attrs, fields) ==
    IF attrs.transparent
    THEN {<<fields[1].ty, "Error">>}
    ELSE IF source_field(fields) # 0
    THEN {<<unoptional_type(fields[source_field(fields)].ty), "Error + 'static">>}
    ELSE {}

\* the inserts into error_inferred_bounds for one struct / variant
source_bounds(generics, attrs, fields) ==
    IF attrs.transparent
    THEN IF contains_generic(generics, fields[1].ty)
         THEN {<<fields[1].ty, "Error">>} ELSE {}
    ELSE IF source_field(fields) # 0
    THEN IF contains_generic(generics, fields[source_field(fields)].ty)
         THEN {<<unoptional_type(fields[source_field(fields)].ty), "Error + 'static">>}
         ELSE {}
    ELSE {}

self_bounds_for_any_param(generics) ==
    IF generics # <<>> THEN {<<SelfTy, "Debug">>, <<SelfTy, "Display">>} ELSE {}

\* Self: Debug and Self: Display
self_bounds(generics) ==
    IF type_params(generics) # {} THEN {<<SelfTy, "Debug">>, <<SelfTy, "Display">>}
    ELSE {}

\* the inserts into display_inferred_bounds for the implied bounds of one body
display_bounds(generics, fields, display_implied_bounds) ==
    { <<fields[p[1] + 1].ty, p[2]>> :
        p \in { q \in display_implied_bounds :
                  contains_generic(generics, fields[q[1] + 1].ty) } }

\* display_implied_bounds of a struct
struct_implied_bounds(attrs) ==
    IF attrs.transparent THEN {<<0, "Display">>}
    ELSE IF attrs.display THEN attrs.implied_bounds
    ELSE {}

\* display_implied_bounds of a variant's arm
variant_implied_bounds(attrs) ==
    IF attrs.display THEN attrs.implied_bounds ELSE {<<0, "Display">>}

(***************************************************************************)
(* expand.rs: impl_struct, impl_enum, derive.                              *)
(***************************************************************************)
impl_struct(inp) ==
    [kind |-> "struct",
     source_method |-> source_body(inp.attrs, inp.fields),
     provide_method |-> struct_provide_method(inp.fields),
     display_impl |-> struct_display_impl(inp.attrs, inp.fields),
     error_where_clause |->
        source_bounds(inp.generics, inp.attrs, inp.fields) \cup self_bounds(inp.generics),
     display_where_clause |->
        IF struct_display_impl(inp.attrs, inp.fields).kind = "none" THEN {}
        ELSE display_bounds(inp.generics, inp.fields, struct_implied_bounds(inp.attrs)),
     from_impls |-> <<from_impl(inp.fields)>>,
     variant_traits_impl |->
        <<variant_traits_impl(inp.ident \o sTHROWS, inp.ident, inp.fields)>>]

\* arms only for the variants that have a cause
source_arms_of_causes_only(inp) ==
    LET idx == FilterIdx(Len(inp.variants),
                         [i \in 1..Len(inp.variants) |->
                            \/ inp.variants[i].attrs.transparent
                            \/ source_field(inp.variants[i].fields) # 0])
    IN [pats |-> [k \in 1..Len(idx) |-> inp.variants[idx[k]].ident],
        arms |-> [k \in 1..Len(idx) |->
                    source_body(inp.variants[idx[k]].attrs, inp.variants[idx[k]].fields)]]

\* input.variants.iter().map(..): the arms `#ty::#ident {..} => ..` of fn source,
\* their patterns and their right-hand sides
source_arms(inp) ==
    [pats |-> [i \in 1..Len(inp.variants) |-> inp.variants[i].ident],
     arms |-> [i \in 1..Len(inp.variants) |->
                 source_body(inp.variants[i].attrs, inp.variants[i].fields)]]

\* the arms of fn provide
provide_arms(inp) ==
    [pats |-> [i \in 1..Len(inp.variants) |-> inp.variants[i].ident],
     arms |-> [i \in 1..Len(inp.variants) |-> enum_provide_arm(inp.variants[i].fields)]]

\* the arms of Display::fmt
display_arms(inp) ==
    [pats |-> [i \in 1..Len(inp.variants) |-> inp.variants[i].ident],
     arms |-> [i \in 1..Len(inp.variants) |->
                 enum_display_arm(inp.variants[i].attrs, inp.variants[i].fields)]]

impl_enum(inp) ==
    LET n == Len(inp.variants)
        V(i) == inp.variants[i]
    IN [kind |-> "enum",
        source_method |->
           IF has_source(inp)
           THEN [kind |-> "match", pats |-> source_arms(inp).pats,
                 arms |-> source_arms(inp).arms]
           ELSE [kind |-> "none"],
        provide_method |->
           IF has_backtrace(inp)
           THEN [kind |-> "match", pats |-> provide_arms(inp).pats,
                 arms |-> provide_arms(inp).arms]
           ELSE [kind |-> "none"],
        display_impl |->
           IF has_display(inp)
           THEN [kind |-> "match", pats |-> display_arms(inp).pats,
                 arms |-> display_arms(inp).arms]
           ELSE [kind |-> "none"],
        error_where_clause |->
           (IF has_source(inp)
            THEN UNION { source_bounds(inp.generics, V(i).attrs, V(i).fields) : i \in 1..n }
            ELSE {})
           \cup self_bounds(inp.generics),
        display_where_clause |->
           IF has_display(inp)
           THEN UNION { display_bounds(inp.generics, V(i).fields,
                                       variant_implied_bounds(V(i).attrs)) : i \in 1..n }
           ELSE {},
        from_impls |-> [i \in 1..n |-> from_impl(V(i).fields)],
        variant_traits_impl |->
           [i \in 1..n |->
              variant_traits_impl(inp.ident \o V(i).ident \o sTHROWS, V(i).ident,
                                  V(i).fields)]]

NoOutput == [kind |-> "none"]

\* ast.rs Input::from_syn: a union is not supported, and a display template must
\* refer to fields that exist
from_syn(node) ==
    IF node.kind \notin {"struct", "enum"} THEN [ok |-> FALSE]
    ELSE IF node.kind = "struct"
    THEN [ok |-> \A p \in node.attrs.implied_bounds : p[1] < Len(node.fields),
          input |-> node]
    ELSE [ok |-> \A i \in 1..Len(node.variants) :
                    \A p \in node.variants[i].attrs.implied_bounds :
                       p[1] < Len(node.variants[i].fields),
          input |-> node]

\* validation failing does not stop the expansion
derive_without_validate(node) ==
    IF ~from_syn(node).ok THEN [ok |-> FALSE, tokens |-> NoOutput]
    ELSE [ok |-> TRUE,
          tokens |-> IF from_syn(node).input.kind = "struct"
                     THEN impl_struct(from_syn(node).input)
                     ELSE impl_enum(from_syn(node).input)]

\* from_syn, then validate, then the emitters; `?` returns the error at once
derive(node) ==
    IF ~from_syn(node).ok THEN [ok |-> FALSE, tokens |-> NoOutput]
    ELSE IF ~validate(from_syn(node).input) THEN [ok |-> FALSE, tokens |-> NoOutput]
    ELSE [ok |-> TRUE,
          tokens |-> IF from_syn(node).input.kind = "struct"
                     THEN impl_struct(from_syn(node).input)
                     ELSE impl_enum(from_syn(node).input)]

(***************************************************************************)
(* Inputs.                                                                 *)
(***************************************************************************)
\* what the host compiler asks of the field types for the generated items to be
\* well typed: the causal field is an error (possibly optional), a transparent
\* sole field is an error, a separately stored trace is a Backtrace (possibly
\* optional), and From builds the value from the source and the trace alone
ShapeTypeChecks(attrs, fields) ==
    LET s == source_field(fields)
        b == backtrace_field(fields)
        f == from_field(fields)
    IN /\ s # 0 => fields[s].ty \in {IoError, OptionOf(IoError), Errno}
       /\ attrs.transparent => (Len(fields) >= 1 /\ fields[1].ty = IoError)
       /\ (b # 0 /\ b # s) => fields[b].ty \in {Backtrace, OptionOf(Backtrace)}
       /\ f # 0 => \A i \in 1..Len(fields) : i = f \/ i = b

Struct(ident, attrs, fields) ==
    [kind |-> "struct", ident |-> ident, generics |-> <<>>, attrs |-> attrs,
     fields |-> fields]

Variant(ident, attrs, fields) == [ident |-> ident, attrs |-> attrs, fields |-> fields]

Enum(variants) ==
    [kind |-> "enum", ident |-> MyError, generics |-> <<>>, attrs |-> NoContainerAttrs,
     variants |-> variants]

\* the other variants an enum under study may have: a unit variant, and
\* `Bad { #[from] source: io::Error, backtrace: Backtrace }` with a display template
Siblings ==
    { Variant(VariantB, NoContainerAttrs, <<>>),
      Variant(VariantB, [NoContainerAttrs EXCEPT !.display = TRUE],
              <<[named |-> TRUE, member |-> sSOURCE, ty |-> IoError,
                 attrs |-> [NoAttrs EXCEPT !.from = TRUE]],
                [named |-> TRUE, member |-> OtherName[2], ty |-> Backtrace,
                 attrs |-> NoAttrs]>>) }

\* the inputs built around one struct / variant body
InputsAround(attrs, fields) ==
    {Struct(MyError, attrs, fields), Enum(<<Variant(VariantA, attrs, fields)>>)}
    \cup { Enum(<<Variant(VariantA, attrs, fields), sib>>) : sib \in Siblings }

\* a type definition that passes validation and whose generated items compile
IsProgram(inp) ==
    /\ validate(inp)
    /\ IF inp.kind = "struct" THEN ShapeTypeChecks(inp.attrs, inp.fields)
       ELSE \A i \in 1..Len(inp.variants) :
              ShapeTypeChecks(inp.variants[i].attrs, inp.variants[i].fields)

\* the record of fields and attributes of variant v (a struct is its own variant 1)
ShapeOf(inp, v) ==
    IF inp.kind = "struct" THEN [attrs |-> inp.attrs, fields |-> inp.fields]
    ELSE [attrs |-> inp.variants[v].attrs, fields |-> inp.variants[v].fields]

NumVariants(inp) == IF inp.kind = "struct" THEN 1 ELSE Len(inp.variants)

(***************************************************************************)
(* The pipeline: derive.                                                   *)
(***************************************************************************)
NoCall == [op |-> "none", variant |-> 0, recv |-> <<>>, args |-> <<>>, ip |-> 0]

InitRest ==
    /\ pc = "input"
    /\ out = NoOutput
    /\ call = NoCall
    /\ self = <<>>
    /\ ret = <<>>
    /\ log = <<>>

Derive ==
    /\ pc = "input"
    /\ out' = derive(input).tokens
    /\ pc' = IF derive(input).ok THEN "emitted" ELSE "failed"
    /\ UNCHANGED <<input, call, self, ret, log>>

(***************************************************************************)
(* Run-time values.  A value is plain, Some(..) or None; `v` is its        *)
(* payload.  "e1" and "e2" are values of the inner error type: e2 has a    *)
(* cause of its own, e1 has none.                                          *)
(***************************************************************************)
Plain(x) == [w |-> "plain", v |-> x]
Some(x) == [w |-> "some", v |-> x]
None == [w |-> "none", v |-> "-"]

Ok(t) == [ok |-> TRUE, val |-> t]
Err(e) == [ok |-> FALSE, val |-> e]

Values(ty, payloads) ==
    IF ty.path = "Option" THEN {None} \cup {Some(x) : x \in payloads}
    ELSE {Plain(x) : x \in payloads}

ErrPayloads == {"e1", "e2"}
Captured == "captured"  \* the trace std::backtrace::Backtrace::capture() returns
ArgPayload == <<"a1", "a2", "a3", "a4">>   \* the payload of the k-th argument

Payloads == ErrPayloads \cup {"trace", "text"} \cup {ArgPayload[k] : k \in 1..Len(ArgPayload)}

AllValues == {None} \cup {Some(x) : x \in Payloads} \cup {Plain(x) : x \in Payloads}

\* the values a field of type ty may hold
FieldValues(ty) ==
    LET base == IF ty.path = "Option" THEN ty.args[1] ELSE ty
    IN Values(ty, IF base \in {IoError, Errno} THEN ErrPayloads
                  ELSE IF base = Backtrace THEN {"trace"} ELSE {"text"})

\* std::error::Error::source of an inner error value
InnerSource(x) == IF x = "e2" THEN Some("cause of e2") ELSE None

(***************************************************************************)
(* The generated items of variant v, whichever kind the input has.         *)
(***************************************************************************)
TraitOf(o, v) == o.variant_traits_impl[v]

\* `match self`: the first arm whose pattern names the variant of the value
MatchArm(m, ident) == m.arms[First(Len(m.pats), [k \in 1..Len(m.pats) |-> m.pats[k] = ident])]

SourceOf(o, v) ==
    IF o.kind = "struct" \/ o.source_method.kind = "none" THEN o.source_method
    ELSE MatchArm(o.source_method, input.variants[v].ident)

ProvideOf(o, v) ==
    IF o.kind = "struct" \/ o.provide_method.kind = "none" THEN o.provide_method
    ELSE MatchArm(o.provide_method, input.variants[v].ident)

FromOf(o, v) == o.from_impls[v]

\* the statements of the method a call executes
BodyOf(c) ==
    IF c.op = "throw" THEN TraitOf(out, c.variant).throw_impl
    ELSE TraitOf(out, c.variant).with_method_impl.body

\* the constructor expression is well typed: in `Ty(e, _0, ..)` every argument has
\* the type of the field at its position, and in `Ty { source: e, .. }` a field
\* initialised from the variable e has the type of the failure value
ThrowTypeChecks(tr, fields) ==
    IF tr.new_struct.kind = "tuple"
    THEN /\ Len(tr.new_struct.args) = Len(fields)
         /\ \A i \in 1..Len(fields) :
              fields[i].ty = IF i = 1 THEN tr.source_ty ELSE tr.params[i - 1].ty
    ELSE /\ \A k \in 1..Len(tr.new_struct.inits) :
              tr.new_struct.inits[k].expr = eVar =>
                 \A i \in 1..Len(fields) :
                    fields[i].member = tr.new_struct.inits[k].member
                       => fields[i].ty = tr.source_ty
         \* a variable used for two fields is copied
         /\ Cardinality({k \in 1..Len(tr.new_struct.inits) :
                           tr.new_struct.inits[k].expr = eVar}) > 1
               => tr.source_ty = Errno

\* the value a constructor expression builds, given the bound variables
Construct(ns, env, fields) ==
    IF ns.kind = "named"
    THEN [i \in 1..Len(fields) |->
            env[ns.inits[CHOOSE k \in 1..Len(ns.inits) :
                            ns.inits[k].member = fields[i].member].expr]]
    ELSE [i \in 1..Len(ns.args) |-> env[ns.args[i]]]

\* the variables in scope in the closure: e and the parameters / the supplier's values
Env(tr, e, args) ==
    [x \in {eVar} \cup {tr.params[k].name : k \in 1..Len(tr.params)} |->
        IF x = eVar THEN e
        ELSE args[CHOOSE k \in 1..Len(tr.params) : tr.params[k].name = x]]

\* the value the supplier returns for the extra-field values v: bare when its return
\* type is one type, a tuple otherwise
SupplierReturn(returns, v) == IF returns.path = "tuple" THEN v ELSE v[1]

\* the variables in scope after `let (#fields) = f();` in the closure: the names of
\* the pattern are bound to the supplier's value, e as far as the pattern does not
\* bind it anew
EnvWith(tr, e, val) ==
    LET pat == tr.with_method_impl.pat
    IN [x \in {eVar} \cup {pat[k] : k \in 1..Len(pat)} |->
          IF \E k \in 1..Len(pat) : pat[k] = x
          THEN IF Len(pat) = 1 THEN val
               ELSE val[CHOOSE k \in 1..Len(pat) : pat[k] = x]
          ELSE e]

\* the argument tuples a caller may pass: the k-th argument carries ArgPayload[k]
ArgTuples(params) ==
    { a \in [1..Len(params) -> AllValues] :
        \A k \in 1..Len(params) : a[k] \in Values(params[k].ty, {ArgPayload[k]}) }

(***************************************************************************)
(* Calling throw_<name> / throw_<name>_with on a Result.                   *)
(***************************************************************************)
Enter(op, v, recv, args) ==
    /\ call' = [op |-> op, variant |-> v, recv |-> recv, args |-> args, ip |-> 1]
    /\ pc' = "running"
    /\ UNCHANGED <<input, out, self, ret, log>>

CallThrow ==
    /\ pc = "emitted"
    /\ \E v \in 1..NumVariants(input) :
         /\ TraitOf(out, v).kind = "some"
         /\ ThrowTypeChecks(TraitOf(out, v), ShapeOf(input, v).fields)
         /\ \E recv \in {Ok(Plain("t"))}
                        \cup {Err(e) : e \in Values(TraitOf(out, v).source_ty, {"e1"})} :
              \E args \in ArgTuples(TraitOf(out, v).params) :
                 Enter("throw", v, recv, args)

\* args are the values the supplier f returns when it is invoked
CallThrowWith ==
    /\ pc = "emitted"
    /\ \E v \in 1..NumVariants(input) :
         /\ TraitOf(out, v).kind = "some"
         /\ TraitOf(out, v).with_method_impl.present
         /\ TraitOf(out, v).with_method_decl.present
         /\ ThrowTypeChecks(TraitOf(out, v), ShapeOf(input, v).fields)
         /\ \E recv \in {Ok(Plain("t"))}
                        \cup {Err(e) : e \in Values(TraitOf(out, v).source_ty, {"e1"})} :
              \E args \in ArgTuples(TraitOf(out, v).params) :
                 Enter("throw_with", v, recv, args)

\* Result::map_err: Ok is passed through, Err(e) is handed to the closure
MapErr ==
    /\ pc = "running"
    /\ BodyOf(call)[call.ip] = "map_err"
    /\ IF call.recv.ok
       THEN /\ ret' = call.recv
            /\ pc' = "done"
            /\ log' = Append(log, "ok")
            /\ call' = call
       ELSE /\ pc' = pc
            /\ log' = Append(log, "err")
            /\ call' = [call EXCEPT !.ip = @ + 1]
            /\ ret' = ret
    /\ UNCHANGED <<input, out, self>>

\* `let (fields) = f();` invokes the supplier
CallSupplier ==
    /\ pc = "running"
    /\ BodyOf(call)[call.ip] = "let_fields_f"
    /\ log' = Append(log, "f")
    /\ call' = [call EXCEPT !.ip = @ + 1]
    /\ UNCHANGED <<input, pc, out, self, ret>>

\* the closure's last expression: the value of the derived type
NewStruct ==
    /\ pc = "running"
    /\ BodyOf(call)[call.ip] = "new_struct"
    /\ LET tr == TraitOf(out, call.variant)
           env == IF call.op = "throw" THEN Env(tr, call.recv.val, call.args)
                  ELSE EnvWith(tr, call.recv.val,
                               SupplierReturn(tr.with_method_impl.returns, call.args))
       IN ret' = Err([variant |-> call.variant,
                      vals |-> Construct(tr.new_struct, env,
                                         ShapeOf(input, call.variant).fields)])
    /\ pc' = "done"
    /\ UNCHANGED <<input, out, self, call, log>>

(***************************************************************************)
(* A value of the derived type, and the generated Error methods on it.     *)
(***************************************************************************)
\* the value stored in the field called `member`
FieldVal(me, fields, member) ==
    me.vals[CHOOSE i \in 1..Len(fields) : fields[i].member = member]

NewSelf ==
    /\ pc = "emitted"
    /\ \E v \in 1..NumVariants(input) :
         LET fields == ShapeOf(input, v).fields
         IN \E vals \in [1..Len(fields) -> AllValues] :
               /\ \A i \in 1..Len(fields) : vals[i] \in FieldValues(fields[i].ty)
               /\ self' = [variant |-> v, vals |-> vals]
    /\ pc' = "value"
    /\ UNCHANGED <<input, out, call, ret, log>>

\* what the generated fn source returns on `me`; without a generated method the
\* trait's default answers None
RunSource(code, me, fields) ==
    IF code.kind = "none" THEN None
    ELSE IF code.kind = "transparent"
    THEN InnerSource(FieldVal(me, fields, code.member).v)
    ELSE LET val == FieldVal(me, fields, code.member)
         IN IF code.asref /\ val.w = "none" THEN None ELSE Some(val.v)

CallSource ==
    /\ pc = "value"
    /\ call' = [NoCall EXCEPT !.op = "source", !.variant = self.variant]
    /\ ret' = RunSource(SourceOf(out, self.variant), self,
                        ShapeOf(input, self.variant).fields)
    /\ pc' = "done"
    /\ UNCHANGED <<input, out, self, log>>

\* fn provide is entered; without a generated method the trait's default returns
CallProvide ==
    /\ pc = "value"
    /\ call' = [NoCall EXCEPT !.op = "provide", !.variant = self.variant, !.ip = 1]
    /\ pc' = IF ProvideOf(out, self.variant).kind = "none"
                \/ ProvideOf(out, self.variant).body = <<>>
             THEN "done" ELSE "providing"
    /\ UNCHANGED <<input, out, self, ret, log>>

\* the statement the running provide method is at, and the state after it
ProvideStmt == ProvideOf(out, call.variant).body[call.ip]

AfterStmt(event) ==
    /\ log' = log \o event
    /\ IF call.ip = Len(ProvideOf(out, call.variant).body)
       THEN pc' = "done" /\ call' = call
       ELSE pc' = pc /\ call' = [call EXCEPT !.ip = @ + 1]
    /\ UNCHANGED <<input, out, self, ret>>

\* source.thiserror_provide(request), under `if let Some(source)` for an Option
SourceProvide ==
    /\ pc = "providing"
    /\ ProvideStmt.op = "source_provide"
    /\ LET val == FieldVal(self, ShapeOf(input, call.variant).fields, ProvideStmt.member)
       IN AfterStmt(IF ProvideStmt.cond = "if_some" /\ val.w = "none" THEN <<>>
                    ELSE <<[ev |-> "forward", w |-> val.w, v |-> val.v]>>)

\* request.provide_ref::<Backtrace>(backtrace), under `if let Some(backtrace)` for
\* an Option
SelfProvide ==
    /\ pc = "providing"
    /\ ProvideStmt.op = "self_provide"
    /\ LET val == FieldVal(self, ShapeOf(input, call.variant).fields, ProvideStmt.member)
       IN AfterStmt(IF ProvideStmt.cond = "if_some" /\ val.w = "none" THEN <<>>
                    ELSE <<[ev |-> "offer", w |-> val.w, v |-> val.v]>>)

(***************************************************************************)
(* The generated From.                                                     *)
(***************************************************************************)
\* the value of an initializer expression, `source` being bound to x
InitValue(expr, x) ==
    LET of == IF expr.of = "source" THEN x ELSE Plain(Captured)
    IN IF expr.wrap = "Some" THEN Some(of.v) ELSE of

CallFrom ==
    /\ pc = "emitted"
    /\ \E v \in 1..NumVariants(input) :
         /\ FromOf(out, v).kind = "some"
         /\ \E x \in FieldValues(FromOf(out, v).from) :
              LET fields == ShapeOf(input, v).fields
                  body == FromOf(out, v).body
              IN /\ call' = [NoCall EXCEPT !.op = "from", !.variant = v, !.recv = x]
                 /\ ret' = [variant |-> v,
                            vals |-> [i \in 1..Len(fields) |->
                                        InitValue(body[CHOOSE k \in 1..Len(body) :
                                                     body[k].member = fields[i].member].expr,
                                                  x)]]
                 /\ log' = [k \in 1..Len(SelectSeq(body, LAMBDA b : b.expr.of = "capture"))
                              |-> "capture"]
    /\ pc' = "done"
    /\ UNCHANGED <<input, out, self>>

\* every program over a body of at most MaxFields fields
Init ==
    /\ \E n \in 0..MaxFields : \E fields \in FieldLists(n) : \E attrs \in ContainerAttrs :
          /\ validate_shape(attrs, fields)
          /\ ShapeTypeChecks(attrs, fields)
          /\ \E inp \in InputsAround(attrs, fields) :
                /\ IsProgram(inp)
                /\ input = inp
    /\ InitRest

Next == Derive \/ CallThrow \/ CallThrowWith \/ MapErr \/ CallSupplier \/ NewStruct

Spec == Init /\ [][Next]_vars

\* the error interface of the derived type
NextError == Derive \/ NewSelf \/ CallSource \/ CallProvide \/ SourceProvide \/ SelfProvide

SpecError == Init /\ [][NextError]_vars

\* the conversion constructors
NextFrom == Derive \/ CallFrom

SpecFrom == Init /\ [][NextFrom]_vars

\* the names of the throw methods: a struct or a variant called by each identifier
NameFields ==
    { <<[named |-> TRUE, member |-> sSOURCE, ty |-> IoError, attrs |-> NoAttrs]>>,
      <<[named |-> FALSE, member |-> 0, ty |-> IoError,
         attrs |-> [NoAttrs EXCEPT !.source = TRUE]],
        [named |-> FALSE, member |-> 1, ty |-> String, attrs |-> NoAttrs]>> }

InitName ==
    /\ \E id \in Idents \ {<<"_">>} : \E fields \in NameFields :
          input \in {Struct(id, NoContainerAttrs, fields),
                     Enum(<<Variant(id, NoContainerAttrs, fields)>>)}
    /\ InitRest

NextName == Derive

SpecName == InitName /\ [][NextName]_vars

(***************************************************************************)
(* Properties of the throw traits.                                         *)
(***************************************************************************)
\* the fields other than the causal field s, in declaration order
OtherFields(fields, s) == FilterIdx(Len(fields), [i \in 1..Len(fields) |-> i # s])

\* C1: throw_<name> on a failing result yields a value of the enclosing type whose
\* causal field holds the failure value and whose other fields hold the arguments,
\* taken in declaration order of the non-causal fields, whether the fields are named
\* or positional and wherever the causal field stands; on a successful result it
\* returns the success value unchanged.
C1_ThrowBuildsValue ==
    (pc = "done" /\ call.op = "throw") =>
        LET fields == ShapeOf(input, call.variant).fields
            s == source_field(fields)
            others == OtherFields(fields, s)
        IN IF call.recv.ok THEN ret = call.recv
           ELSE /\ ~ret.ok
                /\ ret.val.variant = call.variant
                /\ Len(ret.val.vals) = Len(fields)
                /\ ret.val.vals[s] = call.recv.val
                /\ \A k \in 1..Len(others) : ret.val.vals[others[k]] = call.args[k]

\* C3: for every struct or variant with a causal field, throw_<name>_with is
\* generated, in the trait declaration and in its implementation, if and only if
\* there is at least one non-causal field, and its name is the eager method's name
\* followed by "_with".
C3_WithMethodIffExtraFields ==
    pc \notin {"input", "failed"} =>
        \A v \in 1..NumVariants(input) :
            LET fields == ShapeOf(input, v).fields
                s == source_field(fields)
                tr == TraitOf(out, v)
                extra == \E i \in 1..Len(fields) : i # s
            IN s # 0 =>
                 /\ tr.kind = "some"
                 /\ tr.with_method_decl.present <=> extra
                 /\ tr.with_method_impl.present <=> extra
                 /\ tr.with_method_decl.name = tr.throw_method \o sWITH
                 /\ tr.with_method_impl.name = tr.throw_method \o sWITH

\* a variant with a causal field and an extra field, and one with a causal field alone
C3_Witness ==
    /\ pc = "emitted"
    /\ input.kind = "enum"
    /\ Len(input.variants) = 2
    /\ TraitOf(out, 1).kind = "some" /\ ~TraitOf(out, 1).with_method_decl.present
    /\ TraitOf(out, 2).kind = "some" /\ TraitOf(out, 2).with_method_impl.present

NumberOf(ev) == Cardinality({i \in 1..Len(log) : log[i] = ev})

\* C4: throw_<name>_with invokes its supplier exactly once when the result is a
\* failure, and only after the failure is observed; on a success the supplier is
\* never invoked and the success value is returned unchanged.
C4_SupplierOnceOnFailure ==
    call.op = "throw_with" =>
        /\ NumberOf("f") <= 1
        /\ \A i \in 1..Len(log) : log[i] = "f" => \E j \in 1..(i - 1) : log[j] = "err"
        /\ pc = "done" =>
             IF call.recv.ok THEN NumberOf("f") = 0 /\ ret = call.recv
             ELSE NumberOf("f") = 1 /\ ~ret.ok

C4_Witness ==
    /\ pc = "done"
    /\ call.op = "throw_with"
    /\ ~call.recv.ok
    /\ log = <<"err", "f">>
    /\ ~ret.ok

(***************************************************************************)
(* Properties of the method names.                                         *)
(***************************************************************************)
\* the identifier the throw methods of variant v are named after
NamedAfter(inp, v) == IF inp.kind = "struct" THEN inp.ident ELSE inp.variants[v].ident

\* s with its final "_error" removed when it ends in "_error", s itself otherwise
WithoutFinalError(s) ==
    IF ends_with(s, sERROR) THEN SubSeq(s, 1, Len(s) - Len(sERROR)) ELSE s

\* C2: the base name is the lower-snake-case form s of the type (struct) or variant
\* (enum) identifier with its final "_error" removed when s ends in "_error", and s
\* itself otherwise; the method is named throw_<base name>.
C2_BaseNameDropsFinalError ==
    pc = "emitted" =>
        \A v \in 1..NumVariants(input) :
            TraitOf(out, v).kind = "some" =>
                TraitOf(out, v).throw_method
                    = sTHROW \o WithoutFinalError(snake(NamedAfter(input, v)))

(***************************************************************************)
(* Properties of the error interface.                                      *)
(***************************************************************************)
Forwarded(val) == [ev |-> "forward", w |-> val.w, v |-> val.v]
Offered(val) == [ev |-> "offer", w |-> val.w, v |-> val.v]

\* the fields of the value under study and the roles among them
SelfFields == ShapeOf(input, self.variant).fields
SelfAttrs == ShapeOf(input, self.variant).attrs
ProvideDone == pc = "done" /\ call.op = "provide"
SourceDone == pc = "done" /\ call.op = "source"

\* C5: for a struct or variant whose causal field and backtrace field are different
\* members, whether the backtrace role comes from a tag or from the field's type,
\* trace provision first forwards the request to the causal field (skipped only when
\* that field is optional and absent) and afterwards offers the stored trace.
C5_ForwardThenOffer ==
    ProvideDone =>
        LET s == source_field(SelfFields)
            b == backtrace_field(SelfFields)
        IN (s # 0 /\ b # 0 /\ s # b) =>
             log = (IF self.vals[s].w = "none" THEN <<>> ELSE <<Forwarded(self.vals[s])>>)
                   \o (IF self.vals[b].w = "none" THEN <<>>
                       ELSE <<Offered(self.vals[b])>>)

\* C6: in trace provision the stored trace is offered if and only if the backtrace
\* field is a different member from the causal field (or there is no causal field)
\* and, when optional, holds a value; when the backtrace field is the causal field
\* itself the request is only forwarded to that field and nothing is offered.
C6_OfferOnlyDistinctPresentTrace ==
    ProvideDone =>
        LET s == source_field(SelfFields)
            b == backtrace_field(SelfFields)
            offers == {i \in 1..Len(log) : log[i].ev = "offer"}
        IN /\ (offers # {}) <=> (b # 0 /\ b # s /\ self.vals[b].w # "none")
           /\ \A i \in offers : log[i] = Offered(self.vals[b])
           /\ (b # 0 /\ b = s) =>
                log = IF self.vals[s].w = "none" THEN <<>> ELSE <<Forwarded(self.vals[s])>>

\* an optional trace beside the causal field, present and offered
C6_Witness ==
    /\ ProvideDone
    /\ source_field(SelfFields) # 0
    /\ backtrace_field(SelfFields) # source_field(SelfFields)
    /\ backtrace_field(SelfFields) # 0
    /\ SelfFields[backtrace_field(SelfFields)].ty = OptionOf(Backtrace)
    /\ log = <<Forwarded(self.vals[source_field(SelfFields)]), Offered(Some("trace"))>>

\* C7: without transparency, cause lookup returns the causal field's value when its
\* type is not optional; when its type is Option<..> it returns the contained value
\* if present and no cause if absent; without a causal field it returns no cause.
C7_CauseIsCausalField ==
    (SourceDone /\ ~SelfAttrs.transparent) =>
        LET s == source_field(SelfFields)
        IN IF s = 0 THEN ret = None
           ELSE IF SelfFields[s].ty.path = "Option"
           THEN ret = IF self.vals[s].w = "some" THEN Some(self.vals[s].v) ELSE None
           ELSE ret = Some(self.vals[s].v)

\* an optional causal field that is absent
C7_Witness ==
    /\ SourceDone
    /\ ~SelfAttrs.transparent
    /\ source_field(SelfFields) # 0
    /\ SelfFields[source_field(SelfFields)].ty = OptionOf(IoError)
    /\ self.vals[source_field(SelfFields)] = None
    /\ ret = None

\* C8: under transparency cause lookup returns the sole field's own cause and never
\* the sole field itself, also when the sole field is tagged as the causal field.
C8_TransparentCauseOfSoleField ==
    (SourceDone /\ SelfAttrs.transparent) =>
        /\ ret = InnerSource(self.vals[1].v)
        /\ ret # Some(self.vals[1].v)

\* a transparent body whose sole field is the #[from] field, holding an error that
\* has a cause of its own
C8_Witness ==
    /\ SourceDone
    /\ SelfAttrs.transparent
    /\ SelfFields[1].attrs.from
    /\ source_field(SelfFields) = 1
    /\ self.vals[1] = Plain("e2")
    /\ ret = Some("cause of e2")

(***************************************************************************)
(* Properties of Display and From.                                         *)
(***************************************************************************)
StructEmitted == pc \notin {"input", "failed"} /\ input.kind = "struct"

\* C9 as stated: a struct gets a Display implementation exactly when it has a display
\* template, or is transparent, or has exactly one field and no conflicting
\* declarations.
C9_DisplayAlsoForSoleField ==
    StructEmitted =>
        (out.display_impl.kind # "none"
            <=> (input.attrs.display \/ input.attrs.transparent \/ Len(input.fields) = 1))

\* C9, amended: a struct gets a Display implementation exactly when it has a display
\* template or is transparent; a template renders, transparency forwards to the sole
\* field.
C9_DisplayIffTemplateOrTransparent ==
    StructEmitted =>
        /\ out.display_impl.kind # "none"
             <=> (input.attrs.display \/ input.attrs.transparent)
        /\ input.attrs.display => out.display_impl.kind = "template"
        /\ input.attrs.transparent => out.display_impl.kind = "transparent"

\* a struct with one field and neither template nor transparency: no Display
C9_Witness ==
    /\ StructEmitted
    /\ Len(input.fields) = 1
    /\ ~input.attrs.display /\ ~input.attrs.transparent
    /\ out.display_impl.kind = "none"

FromDone == pc = "done" /\ call.op = "from"
RetFields == ShapeOf(input, ret.variant).fields

\* the value a field of type ty holds when it is set to payload x
Holding(ty, x) == IF ty.path = "Option" THEN Some(x) ELSE Plain(x)

\* the from field holds the argument, and the argument type is the declared type
\* without its Option
FromFieldSet ==
    LET f == from_field(RetFields)
    IN /\ f # 0
       /\ ret.vals[f] = Holding(RetFields[f].ty, call.recv.v)
       /\ call.recv.w = "plain"
       /\ FromOf(out, ret.variant).from
            = IF RetFields[f].ty.path = "Option" THEN RetFields[f].ty.args[1]
              ELSE RetFields[f].ty

\* field b holds a trace captured during the call
TraceCaptured(b) ==
    /\ ret.vals[b] = Holding(RetFields[b].ty, Captured)
    /\ log = <<"capture">>

\* C10 as stated: the conversion sets the from field to x (in Some for an Option
\* field) and, if there is a backtrace field, that field holds a trace captured
\* during the call (in Some when optional); the argument type is the Option-unwrapped
\* type of the from field.
C10_FromCapturesIntoBacktraceField ==
    FromDone =>
        /\ FromFieldSet
        /\ backtrace_field(RetFields) # 0 => TraceCaptured(backtrace_field(RetFields))

\* C10, amended: the conversion sets the from field to x (in Some for an Option
\* field) and, if there is a backtrace field that is a different member from the
\* from field, that field holds a trace captured during the call (in Some when
\* optional); the argument type is the Option-unwrapped type of the from field.
C10_FromCapturesIntoDistinctBacktraceField ==
    FromDone =>
        LET b == backtrace_field(RetFields)
        IN /\ FromFieldSet
           /\ (b # 0 /\ b # from_field(RetFields)) => TraceCaptured(b)

\* an optional from field beside an optional backtrace field
C10_Witness ==
    /\ FromDone
    /\ Len(RetFields) = 2
    /\ RetFields[from_field(RetFields)].ty = OptionOf(IoError)
    /\ RetFields[backtrace_field(RetFields)].ty = OptionOf(Backtrace)
    /\ ret.vals[from_field(RetFields)] = Some(call.recv.v)
    /\ ret.vals[backtrace_field(RetFields)] = Some(Captured)

(***************************************************************************)
(* Several derived types in one module: derive is invoked once for each    *)
(* type definition, and the generated items are spliced into the module    *)
(* the definitions stand in.  In SpecScope `input` is the sequence of the  *)
(* definitions and `out` the sequence of the items generated so far.       *)
(***************************************************************************)
ScopeWords == { <<"I", "o">>, <<"X">> }

ScopeIdents == ScopeWords \cup { a \o b : a \in ScopeWords, b \in ScopeWords }

\* `source: io::Error`, the sole field
SourceOnly == <<[named |-> TRUE, member |-> sSOURCE, ty |-> IoError, attrs |-> NoAttrs]>>

NamedEnum(ident, variants) == [Enum(variants) EXCEPT !.ident = ident]

ScopeVariants ==
    { Variant(id, NoContainerAttrs, fields) : id \in ScopeIdents, fields \in {SourceOnly, <<>>} }

\* a struct with a causal field, or an enum of one or two variants
ScopeItems ==
    { Struct(id, NoContainerAttrs, SourceOnly) : id \in ScopeIdents }
    \cup { NamedEnum(id, <<v>>) : id \in ScopeIdents, v \in ScopeVariants }
    \cup { NamedEnum(id, <<v, w>>) :
             id \in ScopeIdents,
             v \in ScopeVariants,
             w \in { x \in ScopeVariants : x.fields = SourceOnly } }

\* two type definitions of different names; within an enum the variants have
\* different names
InitScope ==
    /\ \E a \in ScopeItems :
          \E b \in { x \in ScopeItems : x.kind = "struct" \/ Len(x.variants) = 1 } :
             /\ a.ident # b.ident
             /\ \A x \in {a, b} :
                   /\ validate(x)
                   /\ x.kind = "enum" =>
                        \A i, j \in 1..Len(x.variants) :
                           i # j => x.variants[i].ident # x.variants[j].ident
             /\ input = <<a, b>>
    /\ pc = "input"
    /\ out = <<>>
    /\ call = NoCall
    /\ self = <<>>
    /\ ret = <<>>
    /\ log = <<>>

\* derive on the next definition of the module
DeriveInScope ==
    /\ pc = "input"
    /\ Len(out) < Len(input)
    /\ out' = Append(out, derive(input[Len(out) + 1]).tokens)
    /\ pc' = IF Len(out) + 1 = Len(input) THEN "emitted" ELSE "input"
    /\ UNCHANGED <<input, call, self, ret, log>>

NextScope == DeriveInScope

SpecScope == InitScope /\ [][NextScope]_vars

\* the traits item k of the module declares, as <<item, variant, trait name>>
DeclaredTraits(k) ==
    { <<k, v, TraitOf(out[k], v).trait_name>> :
        v \in { i \in 1..NumVariants(input[k]) : TraitOf(out[k], i).kind = "some" } }

\* C11: the names of the generated throw traits never collide: two distinct variants
\* of one enum get different trait names, and so do two traits generated for
\* different types (a struct, or an enum and a variant) of the same module.
C11_TraitNamesNeverCollide ==
    pc = "emitted" =>
        \A s \in UNION { DeclaredTraits(k) : k \in 1..Len(out) } :
            \A t \in UNION { DeclaredTraits(k) : k \in 1..Len(out) } :
                (s[1] # t[1] \/ s[2] # t[2]) => s[3] # t[3]

(***************************************************************************)
(* Generic inputs: the where clauses of the generated impls.               *)
(***************************************************************************)
TypeParam(name) == [kind |-> "type", name |-> name]
LifetimeParam == [kind |-> "lifetime", name |-> "'a"]
ConstParam == [kind |-> "const", name |-> "N"]

GenericLists ==
    { <<>>, <<TypeParam("T")>>, <<LifetimeParam>>, <<ConstParam>>,
      <<TypeParam("T"), TypeParam("U")>>, <<LifetimeParam, TypeParam("T")>>,
      <<LifetimeParam, ConstParam>> }

WithGenerics(inp, generics) == [inp EXCEPT !.generics = generics]

\* one field of a generic input: untagged of any type, or tagged causal
BoundFieldKinds ==
    { [attrs |-> NoAttrs, ty |-> t] :
        t \in {GenericT, OptionOf(GenericT), GenericU, String, IoError} }
    \cup { [attrs |-> [NoAttrs EXCEPT !.source = TRUE], ty |-> t] :
             t \in {GenericT, OptionOf(GenericT), IoError} }

\* positional fields, and named fields of which at most one is called `source`
BoundFieldLists(n) ==
    IF n = 0 THEN {<<>>}
    ELSE { [i \in 1..n |-> [named |-> FALSE, member |-> i - 1,
                            ty |-> k[i].ty, attrs |-> k[i].attrs]] :
             k \in [1..n -> BoundFieldKinds] }
         \cup { [i \in 1..n |-> [named |-> TRUE,
                                 member |-> IF i = kp[2] THEN sSOURCE ELSE OtherName[i],
                                 ty |-> kp[1][i].ty, attrs |-> kp[1][i].attrs]] :
                  kp \in [1..n -> BoundFieldKinds] \X (0..n) }

\* the templates over n fields: the fields they interpolate and the trait each
\* interpolation formats with
ImpliedBoundSets(n) ==
    SUBSET { <<i, "Display">> : i \in 0..(n - 1) }
    \cup (IF n = 0 THEN {} ELSE {{<<0, "Debug">>}})

BoundAttrs(n) ==
    { [transparent |-> t, display |-> FALSE, implied_bounds |-> {}] : t \in BOOLEAN }
    \cup { [transparent |-> FALSE, display |-> TRUE, implied_bounds |-> b] :
             b \in ImpliedBoundSets(n) }

\* the other variant of a generic enum: `Bad(#[source] U)`, with or without a
\* template `"{0}"`
BoundSiblings ==
    { Variant(VariantB, a,
              <<[named |-> FALSE, member |-> 0, ty |-> GenericU,
                 attrs |-> [NoAttrs EXCEPT !.source = TRUE]]>>) :
        a \in { NoContainerAttrs,
                [transparent |-> FALSE, display |-> TRUE,
                 implied_bounds |-> {<<0, "Display">>}] } }

\* the types an error may have, as a causal field or behind transparency
CausalTypeChecks(attrs, fields) ==
    /\ source_field(fields) # 0 =>
         unoptional_type(fields[source_field(fields)].ty) \in {IoError, GenericT, GenericU}
    /\ (attrs.transparent /\ Len(fields) >= 1) =>
         fields[1].ty \in {IoError, GenericT, GenericU}

InitBounds ==
    /\ \E n \in 0..MaxFields : \E fields \in BoundFieldLists(n) : \E attrs \in BoundAttrs(n) :
          /\ validate_shape(attrs, fields)
          /\ CausalTypeChecks(attrs, fields)
          /\ \E generics \in GenericLists :
               \E inp \in {Struct(MyError, attrs, fields),
                           Enum(<<Variant(VariantA, attrs, fields)>>)}
                          \cup { Enum(<<Variant(VariantA, attrs, fields), sib>>) :
                                   sib \in BoundSiblings } :
                  /\ validate(inp)
                  /\ input = WithGenerics(inp, generics)
    /\ InitRest

NextBounds == Derive

SpecBounds == InitBounds /\ [][NextBounds]_vars

(***************************************************************************)
(* Properties of the where clauses.                                        *)
(***************************************************************************)
Emitted == pc = "emitted"

\* the fields of the input, as <<variant, position>>
FieldsOf(inp) ==
    { <<v, i>> \in (1..NumVariants(inp)) \X (1..(MaxFields + 1)) :
        i <= Len(ShapeOf(inp, v).fields) }

TypeOfField(inp, vi) == ShapeOf(inp, vi[1]).fields[vi[2]].ty

\* the field is read by cause lookup: the sole field under transparency, the causal
\* field otherwise; an enum has a cause lookup when any variant has a cause
ReadByCause(inp, vi) ==
    LET sh == ShapeOf(inp, vi[1])
    IN /\ inp.kind = "enum" =>
            \E v \in 1..Len(inp.variants) :
               \/ inp.variants[v].attrs.transparent
               \/ source_field(inp.variants[v].fields) # 0
       /\ IF sh.attrs.transparent THEN vi[2] = 1 ELSE vi[2] = source_field(sh.fields)

\* the field is read by Display: interpolated by the template, or the sole field
\* Display forwards to
ReadByDisplay(inp, vi) ==
    LET sh == ShapeOf(inp, vi[1])
    IN IF sh.attrs.display THEN \E p \in sh.attrs.implied_bounds : p[1] + 1 = vi[2]
       ELSE /\ vi[2] = 1
            /\ IF inp.kind = "struct" THEN sh.attrs.transparent
               ELSE \/ \E v \in 1..Len(inp.variants) : inp.variants[v].attrs.display
                    \/ \A w \in 1..Len(inp.variants) : inp.variants[w].attrs.transparent

\* the type mentions the generic parameter called name
Mentions(ty, name) == ty.path = name \/ \E k \in 1..Len(ty.args) : ty.args[k].path = name

MentionsParam(inp, ty) ==
    \E k \in 1..Len(inp.generics) : Mentions(ty, inp.generics[k].name)

WithoutOption(ty) == IF ty.path = "Option" THEN ty.args[1] ELSE ty

BoundedTypes(clause) == { b[1] : b \in clause } \ {SelfTy}

\* C12: a bound is added for a field's type (for the causal field: its type without
\* Option) if and only if the type mentions a generic parameter and the field is read
\* by a generated cause lookup (the causal field, the sole field under transparency)
\* or by a generated Display (a field the template interpolates, the sole field it
\* forwards to); a type that mentions no generic parameter, and a parameter mentioned
\* only by fields not so read, never get a bound.
C12_BoundIffGenericFieldRead ==
    Emitted =>
        /\ BoundedTypes(out.error_where_clause)
             = { WithoutOption(TypeOfField(input, vi)) :
                   vi \in { x \in FieldsOf(input) :
                              /\ ReadByCause(input, x)
                              /\ MentionsParam(input, TypeOfField(input, x)) } }
        /\ BoundedTypes(out.display_where_clause)
             = { TypeOfField(input, vi) :
                   vi \in { x \in FieldsOf(input) :
                              /\ ReadByDisplay(input, x)
                              /\ MentionsParam(input, TypeOfField(input, x)) } }
        /\ \A ty \in BoundedTypes(out.error_where_clause \cup out.display_where_clause) :
             MentionsParam(input, ty)
        /\ \A k \in 1..Len(input.generics) :
             (\E ty \in BoundedTypes(out.error_where_clause \cup out.display_where_clause) :
                 Mentions(ty, input.generics[k].name))
               => \E x \in FieldsOf(input) :
                     /\ Mentions(TypeOfField(input, x), input.generics[k].name)
                     /\ ReadByCause(input, x) \/ ReadByDisplay(input, x)

\* <T, U>: an optional causal field of type Option<T> beside a field of type U that
\* nothing reads
C12_Witness ==
    /\ Emitted
    /\ input.kind = "struct"
    /\ input.generics = <<TypeParam("T"), TypeParam("U")>>
    /\ Len(input.fields) = 2
    /\ input.fields[1].ty = GenericU
    /\ input.fields[2].ty = OptionOf(GenericT)
    /\ source_field(input.fields) = 2
    /\ out.error_where_clause
         = {<<GenericT, "Error + 'static">>, <<SelfTy, "Debug">>, <<SelfTy, "Display">>}
    /\ out.display_where_clause = {}

HasSelfBound(trait) == <<SelfTy, trait>> \in out.error_where_clause

\* C13 as stated: Self: Debug and Self: Display are in the where clause of the Error
\* impl if and only if the input has at least one generic parameter, of any kind.
C13_SelfBoundsIffAnyParam ==
    Emitted =>
        /\ HasSelfBound("Debug") <=> input.generics # <<>>
        /\ HasSelfBound("Display") <=> input.generics # <<>>

\* C13, amended: Self: Debug and Self: Display are in the where clause of the Error
\* impl if and only if the input has at least one generic type parameter.
C13_SelfBoundsIffTypeParam ==
    Emitted =>
        /\ HasSelfBound("Debug")
             <=> \E k \in 1..Len(input.generics) : input.generics[k].kind = "type"
        /\ HasSelfBound("Display")
             <=> \E k \in 1..Len(input.generics) : input.generics[k].kind = "type"

\* <'a, T>: both bounds are added
C13_Witness ==
    /\ Emitted
    /\ input.generics = <<LifetimeParam, TypeParam("T")>>
    /\ HasSelfBound("Debug")
    /\ HasSelfBound("Display")

(***************************************************************************)
(* derive on any type definition, also one that does not build or does not *)
(* validate.                                                               *)
(***************************************************************************)
Union == [kind |-> "union", ident |-> MyError]

\* the attributes of a body of n fields: with a template, the template interpolates
\* nothing, its first field, or a field that does not exist
NodeAttrs(n) ==
    { [transparent |-> t, display |-> FALSE, implied_bounds |-> {}] : t \in BOOLEAN }
    \cup { [transparent |-> t, display |-> TRUE, implied_bounds |-> b] :
             t \in BOOLEAN, b \in {{}, {<<0, "Display">>}, {<<n, "Display">>}} }

InitDerive ==
    /\ \/ input = Union
       \/ \E n \in 1..MaxFields : \E fields \in FieldLists(n) : \E attrs \in NodeAttrs(n) :
             input \in {Struct(MyError, attrs, fields),
                        Enum(<<Variant(VariantA, attrs, fields)>>)}
    /\ InitRest

NextDerive == Derive

SpecDerive == InitDerive /\ [][NextDerive]_vars

\* C14: generation is all or nothing: when model building or validation fails,
\* derive fails and returns no fragment at all; the emitters run, and their fragments
\* are returned, only for a definition that was built and passed validation.
C14_AllOrNothing ==
    pc # "input" =>
        IF from_syn(input).ok /\ validate(from_syn(input).input)
        THEN /\ pc = "emitted"
             /\ out # NoOutput
             /\ out.kind = input.kind
        ELSE /\ pc = "failed"
             /\ out = NoOutput

\* two fields both tagged causal: validation fails and nothing is generated
C14_Witness ==
    /\ pc = "failed"
    /\ out = NoOutput
    /\ input.kind = "struct"
    /\ from_syn(input).ok
    /\ Len(input.fields) = 2
    /\ input.fields[1].attrs.source /\ input.fields[2].attrs.source

(***************************************************************************)
(* Properties of the case analyses an enum gets.                           *)
(***************************************************************************)
VariantIdents == [i \in 1..Len(input.variants) |-> input.variants[i].ident]

\* m is a case analysis with exactly one arm per variant, in declaration order
OneArmPerVariant(m) ==
    /\ m.kind = "match"
    /\ Len(m.arms) = Len(input.variants)
    /\ m.pats = VariantIdents

HasCause(v) == v.attrs.transparent \/ source_field(v.fields) # 0

\* C15: for an enum, cause lookup (generated when any variant has a cause), trace
\* provision (when any variant has a backtrace field) and Display (when the enum has
\* display) are each a case analysis with exactly one arm per variant, in declaration
\* order; the cause-lookup arm of a variant with neither causal field nor
\* transparency returns no cause, and the trace-provision arm of a variant without a
\* backtrace field provides nothing.
C15_OneArmPerVariant ==
    (pc \notin {"input", "failed"} /\ input.kind = "enum") =>
        LET n == Len(input.variants)
            V(i) == input.variants[i]
        IN /\ IF \E i \in 1..n : HasCause(V(i))
              THEN /\ OneArmPerVariant(out.source_method)
                   /\ \A i \in 1..n : ~HasCause(V(i)) => out.source_method.arms[i].kind = "none"
              ELSE out.source_method.kind = "none"
           /\ IF \E i \in 1..n : backtrace_field(V(i).fields) # 0
              THEN /\ OneArmPerVariant(out.provide_method)
                   /\ \A i \in 1..n :
                        backtrace_field(V(i).fields) = 0
                           => out.provide_method.arms[i].body = <<>>
              ELSE out.provide_method.kind = "none"
           /\ IF has_display(input)
              THEN OneArmPerVariant(out.display_impl)
              ELSE out.display_impl.kind = "none"
           /\ (SourceDone /\ ~HasCause(V(self.variant))) => ret = None
           /\ (ProvideDone /\ backtrace_field(V(self.variant).fields) = 0) => log = <<>>

\* an enum whose first variant has a cause and a trace and whose second variant has
\* neither: provide on a value of the second variant offers nothing
C15_Witness ==
    /\ ProvideDone
    /\ input.kind = "enum"
    /\ Len(input.variants) = 2
    /\ self.variant = 2
    /\ input.variants[2].fields = <<>>
    /\ OneArmPerVariant(out.source_method)
    /\ OneArmPerVariant(out.provide_method)
    /\ out.source_method.arms[2].kind = "none"
    /\ out.provide_method.arms[1].body # <<>>
    /\ log = <<>>

(***************************************************************************)
(* The two throw methods on the same result: bodies of up to               *)
(* MaxThrowFields fields, whose names may be those of the variables the    *)
(* generated methods use themselves.                                       *)
(***************************************************************************)
MaxThrowFields == 3

ThrowKinds ==
    { [attrs |-> [NoAttrs EXCEPT !.source = TRUE], ty |-> t] : t \in {IoError, Errno} }
    \cup { [attrs |-> NoAttrs, ty |-> t] : t \in {Errno, String, Backtrace} }

ThrowNames == {sSOURCE, eVar, OtherName[1], OtherName[2]}

ThrowFieldLists(n) ==
    { [i \in 1..n |-> [named |-> FALSE, member |-> i - 1,
                       ty |-> k[i].ty, attrs |-> k[i].attrs]] :
        k \in [1..n -> ThrowKinds] }
    \cup { [i \in 1..n |-> [named |-> TRUE, member |-> km[2][i],
                            ty |-> km[1][i].ty, attrs |-> km[1][i].attrs]] :
             km \in [1..n -> ThrowKinds]
                    \X { m \in [1..n -> ThrowNames] :
                           \A i, j \in 1..n : i # j => m[i] # m[j] } }

InitThrow ==
    /\ \E n \in 1..MaxThrowFields : \E fields \in ThrowFieldLists(n) :
          /\ validate_shape(NoContainerAttrs, fields)
          /\ ShapeTypeChecks(NoContainerAttrs, fields)
          /\ input \in {Struct(MyError, NoContainerAttrs, fields),
                        Enum(<<Variant(VariantA, NoContainerAttrs, fields)>>)}
    /\ InitRest

\* throw_<name>(v) has returned; now throw_<name>_with(|| v) is called on the same
\* result, `self` keeping what throw_<name> returned
CallSameWith ==
    /\ pc = "done"
    /\ call.op = "throw"
    /\ TraitOf(out, call.variant).with_method_decl.present
    /\ TraitOf(out, call.variant).with_method_impl.present
    /\ self' = ret
    /\ call' = [call EXCEPT !.op = "throw_with", !.ip = 1]
    /\ pc' = "running"
    /\ log' = <<>>
    /\ UNCHANGED <<input, out, ret>>

NextThrow == Derive \/ CallThrow \/ MapErr \/ NewStruct \/ CallSameWith \/ CallSupplier

SpecThrow == InitThrow /\ [][NextThrow]_vars

(***************************************************************************)
(* Properties of the parameters and of the deferred method.                *)
(***************************************************************************)
\* C16: for every struct or variant with a causal field and at least one extra
\* field, every failing result e and every extra-field values v, throw_<name>(v) and
\* throw_<name>_with(a supplier returning v) applied to e construct the same value;
\* the supplier returns the bare value for one extra field and a tuple in
\* declaration order for two or more.
C16_WithBuildsSameValue ==
    /\ (pc = "done" /\ call.op = "throw_with") => ret = self
    /\ pc \notin {"input", "failed"} =>
         \A v \in 1..NumVariants(input) :
            LET fields == ShapeOf(input, v).fields
                others == OtherFields(fields, source_field(fields))
                wm == TraitOf(out, v).with_method_impl
            IN (source_field(fields) # 0 /\ Len(others) >= 1) =>
                 /\ wm.present
                 /\ wm.returns = IF Len(others) = 1 THEN fields[others[1]].ty
                                 ELSE [path |-> "tuple",
                                       args |-> [k \in 1..Len(others) |->
                                                   fields[others[k]].ty]]

\* C18: for a validated struct or variant with n fields and a causal field, the throw
\* method takes exactly n-1 parameters, one for each field other than the causal
\* field, in declaration order and with pairwise distinct names: a field merely named
\* `source` beside a tagged causal field is a parameter, a backtrace field is a
\* parameter, the causal field never is.
C18_OneParamPerOtherField ==
    pc \notin {"input", "failed"} =>
        \A v \in 1..NumVariants(input) :
            LET fields == ShapeOf(input, v).fields
                s == source_field(fields)
                others == OtherFields(fields, s)
                params == TraitOf(out, v).params
            IN s # 0 =>
                 /\ Len(params) = Len(fields) - 1
                 /\ \A k \in 1..Len(params) :
                      /\ params[k].ty = fields[others[k]].ty
                      /\ fields[others[k]].named => params[k].name = fields[others[k]].member
                 /\ \A j, k \in 1..Len(params) : j # k => params[j].name # params[k].name

\* a tagged causal field beside a field merely called `source` and a backtrace field
C18_Witness ==
    /\ pc = "emitted"
    /\ input.kind = "struct"
    /\ Len(input.fields) = 3
    /\ input.fields[1].named
    /\ input.fields[1].member = sSOURCE /\ ~input.fields[1].attrs.source
    /\ input.fields[2].attrs.source
    /\ backtrace_field(input.fields) = 3
    /\ Len(TraitOf(out, 1).params) = 2
    /\ TraitOf(out, 1).params[1].name = sSOURCE
    /\ TraitOf(out, 1).params[2].ty = Backtrace

(***************************************************************************)
(* An enum of two variants that both have a causal field, called by any    *)
(* two different identifiers.                                              *)
(***************************************************************************)
InitVariants ==
    /\ \E a \in Idents \ {<<"_">>} : \E b \in Idents \ {<<"_">>} : \E fields \in NameFields :
          /\ a # b
          /\ input = Enum(<<Variant(a, NoContainerAttrs, fields),
                            Variant(b, NoContainerAttrs, SourceOnly)>>)
    /\ InitRest

NextVariants == Derive

SpecVariants == InitVariants /\ [][NextVariants]_vars

\* C17: within one enum, two distinct variants that both have a causal field get
\* distinct throw method names, throw_<name> as well as throw_<name>_with.
C17_VariantsGetDistinctMethods ==
    (pc = "emitted" /\ input.kind = "enum") =>
        \A i, j \in 1..Len(input.variants) :
            (i # j /\ TraitOf(out, i).kind = "some" /\ TraitOf(out, j).kind = "some") =>
                /\ TraitOf(out, i).throw_method # TraitOf(out, j).throw_method
                /\ TraitOf(out, i).with_method_impl.name
                     # TraitOf(out, j).with_method_impl.name
====
